---- MODULE Spec2Model ----
(***************************************************************************)
(* Memory Card Game: the game engine of src/src/hooks/useGameLogic.ts      *)
(* (a React hook), with the score calculator and deck generator of         *)
(* utils/gameHelpers.ts and the persistence adapter of                     *)
(* utils/localStorage.ts.                                                  *)
(*                                                                         *)
(* Modelling conventions.                                                  *)
(*  - One action is one event of the browser's event loop: a call of one   *)
(*    of the hook's operations, or one delayed callback (setTimeout)       *)
(*    firing.  The action contains the handler, the re-render and the      *)
(*    passive effects the re-render triggers (completion check, auto-flip  *)
(*    of the last pair), run until nothing changes.                        *)
(*  - Handlers are operators from a state record S to a state record, so   *)
(*    that the effects can be composed after them.  Cur is the record of   *)
(*    the current values of the variables, Apply(R) assigns them.          *)
(*  - The delay queue `timers` is the sequence of pending setTimeout       *)
(*    callbacks in scheduling order, each with its delay and the values    *)
(*    its closure captured.  A callback may fire when no callback          *)
(*    scheduled earlier has a delay that is not larger (that one is due    *)
(*    first).  Callbacks scheduled later with a shorter delay may overtake.*)
(*  - Card ids are <<gen, k>>: gen numbers the decks generated so far      *)
(*    (generateId is taken to return fresh ids), k the order of creation.  *)
(*  - hooks/useTimer.ts is not part of the available source; the Timer is  *)
(*    modelled from section 4.3 of the specification.                      *)
(***************************************************************************)
EXTENDS Integers, Sequences, FiniteSets, TLC

(***************************************************************************)
(* Bounds of the exploration                                               *)
(***************************************************************************)
MaxCards == 12      \* only difficulties with at most this many cards are played
MaxMoves == 4       \* second-card clicks are offered while fewer than MaxMoves were accepted, all sessions together
MaxTime == 1        \* the Timer ticks while time < MaxTime
MaxSessions == 2    \* decks generated: resets/re-initialisations are offered while gen < MaxSessions
MaxShuffle == 1     \* the shuffles considered are the rotations by 0..MaxShuffle
MaxScoreMoves == 22  \* SpecScore: calculateScore is applied to moves in 0..MaxScoreMoves
MaxScoreTime == 181  \* SpecScore: calculateScore is applied to elapsed seconds in 0..MaxScoreTime
MaxGames == 3       \* SpecStats: games are recorded while fewer than MaxGames were
MaxAutosaveTime == 31 \* SpecAutosave: the Timer ticks while time < MaxAutosaveTime
MaxMemoryMoves == 6 \* SpecMemory: second-card clicks are offered while fewer than this were accepted

(***************************************************************************)
(* utils/constants.ts                                                      *)
(***************************************************************************)
Difficulty == {"EASY", "MEDIUM", "HARD"}

\* timeLimit 0 stands for `undefined` (both are falsy in `if (config.timeLimit)`)
GAME_CONFIGS ==
  [EASY   |-> [rows |-> 2, columns |-> 4, totalCards |-> 8,  timeLimit |-> 0],
   MEDIUM |-> [rows |-> 3, columns |-> 4, totalCards |-> 12, timeLimit |-> 120],
   HARD   |-> [rows |-> 4, columns |-> 5, totalCards |-> 20, timeLimit |-> 180]]

SCORING ==
  [MATCH_BONUS |-> 100, TIME_BONUS_MULTIPLIER |-> 10,
   PERFECT_GAME_BONUS |-> 500, MOVE_PENALTY |-> 5]

ANIMATION_DURATION ==
  [CARD_FLIP |-> 600, MATCH_DELAY |-> 1000, NO_MATCH_DELAY |-> 1200]

\* CARD_THEMES: eight themes of ten face values each; the k-th face value of
\* theme t is written <<t, k>>
ThemeIds ==
  {"animals", "fruits", "sports", "vehicles", "nature", "food", "space", "weather"}

CARD_THEMES == [t \in ThemeIds |-> [k \in 1..10 |-> <<t, k>>]]

DEFAULT_THEME_ID == "animals"

\* what a caller can pass as themeId: a known id, an unknown id (the context's
\* selectedTheme is 'default'), or nothing
undefined == "undefined"
ThemeInputs == ThemeIds \cup {"default", undefined}

PERFECT_MOVES == [EASY |-> 8, MEDIUM |-> 12, HARD |-> 20]

MAX_HIGH_SCORES == 10

Infinity == 999999   \* stands for the JavaScript value Infinity of bestTime/bestMoves

\* the difficulties the exploration plays
PlayedDifficulties == {d \in Difficulty : GAME_CONFIGS[d].totalCards <= MaxCards}

(***************************************************************************)
(* utils/gameHelpers.ts                                                    *)
(***************************************************************************)
Max(a, b) == IF a >= b THEN a ELSE b
Min(a, b) == IF a <= b THEN a ELSE b

\* the pair count of a difficulty: config.totalCards / 2
pairCount(difficulty) == GAME_CONFIGS[difficulty].totalCards \div 2

\* shuffleArray, restricted to the rotations: the result of rotating by r
shuffleArray(array, r) ==
  [i \in 1..Len(array) |-> array[((i - 1 + r) % Len(array)) + 1]]

\* getCardTheme: the theme with this id, the default theme if there is none
getCardTheme(themeId) ==
  IF themeId \in ThemeIds THEN CARD_THEMES[themeId] ELSE CARD_THEMES[DEFAULT_THEME_ID]

\* faulty variant: one face value too few is selected
generateCardsShort(difficulty, themeId_, gen, rs, r) ==
  LET themeId == IF themeId_ = undefined THEN DEFAULT_THEME_ID ELSE themeId_
      theme == getCardTheme(themeId)
      totalPairs == pairCount(difficulty)
      selectedCards == SubSeq(shuffleArray(theme, rs), 1, totalPairs - 1)
      created == [k \in 1..(2 * Len(selectedCards)) |->
                    [id |-> <<gen, k>>, pairId |-> (k - 1) \div 2,
                     value |-> selectedCards[((k - 1) \div 2) + 1],
                     isFlipped |-> FALSE, isMatched |-> FALSE]]
  IN  shuffleArray(created, r)

\* generateCards: the first totalPairs face values of the shuffled theme are
\* selected; pair `index` gets the cards created 2*index+1 and 2*index+2, both
\* face-down and unmatched, with the same pairId and face value.  generateId
\* is taken to return a new value at each call: <<gen, k>> for the k-th card
\* of the gen-th deck.  rs and r are the two shuffles.
generateCards(difficulty, themeId_, gen, rs, r) ==
  LET themeId == IF themeId_ = undefined THEN DEFAULT_THEME_ID ELSE themeId_
      theme == getCardTheme(themeId)
      totalPairs == pairCount(difficulty)
      selectedCards == SubSeq(shuffleArray(theme, rs), 1, totalPairs)
      created == [k \in 1..(2 * Len(selectedCards)) |->
                    [id |-> <<gen, k>>, pairId |-> (k - 1) \div 2,
                     value |-> selectedCards[((k - 1) \div 2) + 1],
                     isFlipped |-> FALSE, isMatched |-> FALSE]]
  IN  shuffleArray(created, r)

checkCardsMatch(card1, card2) ==
  card1.pairId = card2.pairId /\ card1.id # card2.id

\* faulty variant: the completion bonuses are given at the first match
calculateScoreEarlyBonus(moves_, timeElapsed, difficulty_, matchedPairs_) ==
  LET base == matchedPairs_ * SCORING.MATCH_BONUS
  IN  Max(0, IF matchedPairs_ = 1 THEN base + 1000 ELSE base)

\* faulty variant: the perfect-game bonus is given for fewer moves too
calculateScoreLenient(moves_, timeElapsed, difficulty_, matchedPairs_) ==
  LET config == GAME_CONFIGS[difficulty_]
      totalPairs == config.totalCards \div 2
      perfectMoves == PERFECT_MOVES[difficulty_]
      base == matchedPairs_ * SCORING.MATCH_BONUS
      perfect == IF moves_ <= perfectMoves THEN SCORING.PERFECT_GAME_BONUS ELSE 0
      timeBonus ==
        IF config.timeLimit # 0
        THEN IF config.timeLimit - timeElapsed > 0
             THEN (config.timeLimit - timeElapsed) * SCORING.TIME_BONUS_MULTIPLIER
             ELSE 0
        ELSE IF timeElapsed < 120
             THEN (120 - timeElapsed) * SCORING.TIME_BONUS_MULTIPLIER
             ELSE 0
      penalty == IF moves_ - perfectMoves > 0
                 THEN (moves_ - perfectMoves) * SCORING.MOVE_PENALTY ELSE 0
      total == IF matchedPairs_ = totalPairs
               THEN base + 1000 + perfect + timeBonus - penalty
               ELSE base
  IN  Max(0, total)

\* faulty variant: the result is not floored at 0
calculateScoreUnfloored(moves_, timeElapsed, difficulty_, matchedPairs_) ==
  LET config == GAME_CONFIGS[difficulty_]
      perfectMoves == PERFECT_MOVES[difficulty_]
      base == matchedPairs_ * SCORING.MATCH_BONUS
      perfect == IF moves_ = perfectMoves THEN SCORING.PERFECT_GAME_BONUS ELSE 0
      timeBonus ==
        IF config.timeLimit # 0
        THEN Max(0, config.timeLimit - timeElapsed) * SCORING.TIME_BONUS_MULTIPLIER
        ELSE Max(0, 120 - timeElapsed) * SCORING.TIME_BONUS_MULTIPLIER
      penalty == Max(0, moves_ - perfectMoves) * SCORING.MOVE_PENALTY
  IN  IF matchedPairs_ = config.totalCards \div 2
      THEN base + 1000 + perfect + timeBonus - penalty
      ELSE base

calculateScore(moves_, timeElapsed, difficulty_, matchedPairs_) ==
  LET config == GAME_CONFIGS[difficulty_]
      totalPairs == config.totalCards \div 2
      perfectMoves == PERFECT_MOVES[difficulty_]
      base == matchedPairs_ * SCORING.MATCH_BONUS
      perfect == IF moves_ = perfectMoves THEN SCORING.PERFECT_GAME_BONUS ELSE 0
      timeBonus ==
        IF config.timeLimit # 0
        THEN IF config.timeLimit - timeElapsed > 0
             THEN (config.timeLimit - timeElapsed) * SCORING.TIME_BONUS_MULTIPLIER
             ELSE 0
        ELSE IF timeElapsed < 120
             THEN (120 - timeElapsed) * SCORING.TIME_BONUS_MULTIPLIER
             ELSE 0
      penalty == IF moves_ - perfectMoves > 0
                 THEN (moves_ - perfectMoves) * SCORING.MOVE_PENALTY ELSE 0
      total == IF matchedPairs_ = totalPairs
               THEN base + 1000 + perfect + timeBonus - penalty
               ELSE base
  IN  Max(0, total)

\* faulty variant: the game counts as won as soon as one card is matched
isGameWonAny(cards_) ==
  Len(cards_) > 0 /\ \E i \in 1..Len(cards_) : cards_[i].isMatched

isGameWon(cards_) ==
  Len(cards_) > 0 /\ \A i \in 1..Len(cards_) : cards_[i].isMatched

(***************************************************************************)
(* Sequence helpers                                                        *)
(***************************************************************************)
RemoveAt(s, i) == SubSeq(s, 1, i - 1) \o SubSeq(s, i + 1, Len(s))

(***************************************************************************)
(* utils/localStorage.ts                                                   *)
(***************************************************************************)
\* saveToStorage: setItem inside try/catch; a failure writes nothing
saveToStorage(S, key, data) ==
  IF S.storageFails THEN S ELSE [S EXCEPT ![key] = data]

\* what saveToStorage and removeFromStorage return: true, or false from the catch
storageReturns(S) == ~S.storageFails

\* removeFromStorage: removeItem inside try/catch; for the snapshot key
removeFromStorage(S, key) ==
  IF S.storageFails THEN S ELSE [S EXCEPT ![key] = FALSE]

\* the settings before anything is stored
DEFAULT_SETTINGS ==
  [soundEnabled |-> TRUE, musicEnabled |-> TRUE, theme |-> "light",
   showTimer |-> TRUE, autoFlipDelay |-> ANIMATION_DURATION.NO_MATCH_DELAY]

\* the comparator of saveHighScores: a sorts before b
HighScoreBefore(a, b) ==
  IF b.score # a.score THEN a.score > b.score ELSE a.time < b.time

\* Array.prototype.sort with that comparator (stable): e goes after the
\* entries it does not sort before
RECURSIVE InsertHighScore(_, _)
InsertHighScore(s, e) ==
  IF s = <<>> THEN <<e>>
  ELSE IF HighScoreBefore(e, Head(s)) THEN <<e>> \o s
       ELSE <<Head(s)>> \o InsertHighScore(Tail(s), e)

RECURSIVE SortHighScores(_)
SortHighScores(s) ==
  IF s = <<>> THEN <<>>
  ELSE InsertHighScore(SortHighScores(SubSeq(s, 1, Len(s) - 1)), s[Len(s)])

\* faulty variant: the sorted list is not cut to MAX_HIGH_SCORES
saveHighScoresUncut(scores) == SortHighScores(scores)

saveHighScores(scores) ==
  LET sortedScores == SortHighScores(scores)
  IN  SubSeq(sortedScores, 1, Min(Len(sortedScores), MAX_HIGH_SCORES))

addHighScore(currentScores, newScore) ==
  saveHighScores(Append(currentScores, newScore))

\* faulty variant: the score is compared with the best entry
isHighScoreAgainstBest(highScores_, score_) ==
  IF Len(highScores_) < MAX_HIGH_SCORES THEN TRUE
  ELSE score_ > highScores_[1].score

isHighScore(highScores_, score_) ==
  IF Len(highScores_) < MAX_HIGH_SCORES THEN TRUE
  ELSE score_ > highScores_[Len(highScores_)].score

\* loadPlayerStats when nothing is stored
defaultStats ==
  [gamesPlayed |-> 0, gamesWon |-> 0, bestTime |-> Infinity,
   bestMoves |-> Infinity, totalMoves |-> 0]

\* JSON has no Infinity: JSON.stringify writes it as null, JSON.parse reads
\* null back
null == -1

\* a number after JSON.parse(JSON.stringify(v))
jsonNumber(v) == IF v = Infinity THEN null ELSE v

\* the number an operand of Math.min is converted to: null becomes 0
ToNumber(v) == IF v = null THEN 0 ELSE v

MathMin(a, b) == Min(ToNumber(a), ToNumber(b))

\* savePlayerStats: what loadPlayerStats returns once the stats are stored
savePlayerStats(stats) ==
  [stats EXCEPT !.bestTime = jsonNumber(@), !.bestMoves = jsonNumber(@)]

\* updatePlayerStats: updatedStats, computed from what loadPlayerStats returns
updatePlayerStats(currentStats, moves_, time_, isWon) ==
  [gamesPlayed |-> currentStats.gamesPlayed + 1,
   gamesWon    |-> IF isWon THEN currentStats.gamesWon + 1 ELSE currentStats.gamesWon,
   bestTime    |-> IF isWon THEN MathMin(currentStats.bestTime, time_) ELSE currentStats.bestTime,
   bestMoves   |-> IF isWon THEN MathMin(currentStats.bestMoves, moves_) ELSE currentStats.bestMoves,
   totalMoves  |-> currentStats.totalMoves + moves_]

\* savePlayerName: what is written, name.trim() for the names used here
savePlayerName(name) ==
  CASE name = " Ann " -> "Ann"
    [] name = " "     -> ""
    [] OTHER          -> name

\* the value importGameData returns: false from the catch when JSON.parse
\* throws or a mandatory sub-record is missing (or falsy)
importGameDataReturns(data) ==
  data.parses /\ data.hasHighScores /\ data.hasPlayerStats /\ data.hasGameSettings

\* faulty variant: the sub-records found are written before the check
importGameDataEager(S, data) ==
  IF ~data.parses THEN S
  ELSE LET S1 == IF data.hasHighScores
                 THEN saveToStorage(S, "highScores", saveHighScores(data.highScores))
                 ELSE S
       IN  IF data.hasPlayerStats
           THEN saveToStorage(S1, "playerStats", savePlayerStats(data.playerStats))
           ELSE S1

\* importGameData: the blob is parsed, the three mandatory sub-records are
\* checked, then everything is written; an empty playerName or
\* themePreference is falsy and skipped
importGameData(S, data) ==
  IF ~importGameDataReturns(data) THEN S
  ELSE
    LET S1 == saveToStorage(S, "highScores", saveHighScores(data.highScores))
        S2 == saveToStorage(S1, "playerStats", savePlayerStats(data.playerStats))
        S3 == saveToStorage(S2, "gameSettings", data.gameSettings)
        S4 == IF data.playerName # ""
              THEN saveToStorage(S3, "playerName", savePlayerName(data.playerName))
              ELSE S3
    IN  IF data.themePreference # ""
        THEN saveToStorage(S4, "themePreference", data.themePreference)
        ELSE S4

\* exportGameData: the blob, as JSON.parse reads it back; every record
\* loaded is truthy except an empty playerName, and JSON.stringify writes
\* an infinite bestTime or bestMoves as null
exportGameData(S) ==
  [parses |-> TRUE,
   hasHighScores |-> TRUE, hasPlayerStats |-> TRUE, hasGameSettings |-> TRUE,
   highScores |-> S.highScores,
   playerStats |-> [S.playerStats EXCEPT !.bestTime = jsonNumber(@),
                                         !.bestMoves = jsonNumber(@)],
   gameSettings |-> S.gameSettings,
   playerName |-> S.playerName,
   themePreference |-> S.themePreference]

(***************************************************************************)
(* State                                                                   *)
(***************************************************************************)
VARIABLES
  cards,                    \* useState<Card[]>
  flippedCards,             \* useState<Card[]>: the card objects as found at click time
  matchedPairs,             \* useState<number>
  moves,                    \* useState<number>
  score,                    \* useState<number>
  isGameStarted,            \* useState<boolean>
  isGameComplete,           \* useState<boolean>
  isGamePaused,             \* useState<boolean>
  isProcessing,             \* useState<boolean>
  processingTimeoutRef,     \* useRef: 0 is null, otherwise the id of a setTimeout
  gameCompleteTriggeredRef, \* useRef<boolean>: the one-shot completion flag
  timerState,               \* Timer: IDLE, RUNNING, PAUSED or STOPPED
  time,                     \* Timer: elapsed seconds (timer.time)
  timers,                   \* the delay queue: pending setTimeout callbacks, in scheduling order
  difficulty,               \* the difficulty prop of the hook
  themeId,                  \* the themeId prop of the hook
  gen,                      \* number of decks generated so far (the source of fresh card ids)
  autoSaveDue,              \* seconds until the auto-save interval fires; 0: no interval
  lastGameState,            \* store: TRUE iff a session snapshot is stored (the engine never reads it)
  highScores,               \* store: the leaderboard
  playerStats,              \* store: the aggregate statistics
  gameSettings,             \* store: the settings record
  playerName,               \* store: the player's name
  themePreference,          \* store: 'light' or 'dark'
  storageFails,             \* environment: localStorage.setItem and removeItem throw (quota, blocked storage)
  completionRuns,           \* history: completions of handleGameCompletion in the current session
  statsAtInit,              \* history: playerStats.gamesPlayed when the current session was created
  notifiedCur,              \* history: onGameComplete calls reporting the current session
  notifiedStale,            \* history: onGameComplete calls reporting a superseded session
  comparisons,              \* history: second-card clicks accepted so far, all sessions together
  call                      \* history: the last application of a helper made outside the hook

vars ==
  <<cards, flippedCards, matchedPairs, moves, score, isGameStarted,
    isGameComplete, isGamePaused, isProcessing, processingTimeoutRef,
    gameCompleteTriggeredRef, timerState, time, timers, difficulty, themeId, gen,
    autoSaveDue, lastGameState, highScores, playerStats, gameSettings,
    playerName, themePreference, storageFails,
    completionRuns, statsAtInit, notifiedCur, notifiedStale, comparisons, call>>

\* no helper has been applied outside the hook
NoCall == [fn |-> "", args |-> <<>>, out |-> 0]

Cur ==
  [cards |-> cards, flippedCards |-> flippedCards, matchedPairs |-> matchedPairs,
   moves |-> moves, score |-> score, isGameStarted |-> isGameStarted,
   isGameComplete |-> isGameComplete, isGamePaused |-> isGamePaused,
   isProcessing |-> isProcessing, processingTimeoutRef |-> processingTimeoutRef,
   gameCompleteTriggeredRef |-> gameCompleteTriggeredRef,
   timerState |-> timerState, time |-> time, timers |-> timers,
   difficulty |-> difficulty, themeId |-> themeId, gen |-> gen,
   autoSaveDue |-> autoSaveDue, lastGameState |-> lastGameState,
   highScores |-> highScores, playerStats |-> playerStats,
   gameSettings |-> gameSettings, playerName |-> playerName,
   themePreference |-> themePreference,
   storageFails |-> storageFails, completionRuns |-> completionRuns, statsAtInit |-> statsAtInit,
   notifiedCur |-> notifiedCur, notifiedStale |-> notifiedStale,
   comparisons |-> comparisons]

Apply(R) ==
  /\ cards' = R.cards
  /\ flippedCards' = R.flippedCards
  /\ matchedPairs' = R.matchedPairs
  /\ moves' = R.moves
  /\ score' = R.score
  /\ isGameStarted' = R.isGameStarted
  /\ isGameComplete' = R.isGameComplete
  /\ isGamePaused' = R.isGamePaused
  /\ isProcessing' = R.isProcessing
  /\ processingTimeoutRef' = R.processingTimeoutRef
  /\ gameCompleteTriggeredRef' = R.gameCompleteTriggeredRef
  /\ timerState' = R.timerState
  /\ time' = R.time
  /\ timers' = R.timers
  /\ difficulty' = R.difficulty
  /\ themeId' = R.themeId
  /\ gen' = R.gen
  /\ autoSaveDue' = R.autoSaveDue
  /\ lastGameState' = R.lastGameState
  /\ highScores' = R.highScores
  /\ playerStats' = R.playerStats
  /\ gameSettings' = R.gameSettings
  /\ playerName' = R.playerName
  /\ themePreference' = R.themePreference
  /\ storageFails' = R.storageFails
  /\ completionRuns' = R.completionRuns
  /\ statsAtInit' = R.statsAtInit
  /\ notifiedCur' = R.notifiedCur
  /\ notifiedStale' = R.notifiedStale
  /\ comparisons' = R.comparisons
  /\ call' = call

(***************************************************************************)
(* The delay queue (setTimeout / clearTimeout)                             *)
(***************************************************************************)
NoCard == [id |-> <<0, 0>>, pairId |-> -1, value |-> <<"", 0>>, isFlipped |-> FALSE, isMatched |-> FALSE]

TimerIds(S) == {S.timers[i].id : i \in 1..Len(S.timers)}

\* the id setTimeout returns: positive, and different from every id in use
FreshId(S) ==
  CHOOSE n \in 1..(Len(S.timers) + 2) :
    /\ n \notin TimerIds(S) \cup {S.processingTimeoutRef}
    /\ \A m \in 1..(n - 1) : m \in TimerIds(S) \cup {S.processingTimeoutRef}

\* a pending callback: its kind, delay, the session (gen) that scheduled it,
\* and the values captured by its closure (unused ones are blank)
Callback(S, kind, delay, c1, c2) ==
  [id |-> FreshId(S), kind |-> kind, delay |-> delay, gen |-> S.gen,
   c1 |-> c1, c2 |-> c2, mp |-> 0, mv |-> 0, t |-> 0, d |-> "NONE", sc |-> 0]

setTimeout(S, callback) == [S EXCEPT !.timers = Append(@, callback)]

clearTimeout(S, id) ==
  [S EXCEPT !.timers = SelectSeq(@, LAMBDA c : c.id # id)]

\* timers[i] is due before every callback scheduled earlier with a longer delay only
Fireable(i) == \A j \in 1..(i - 1) : timers[j].delay > timers[i].delay

(***************************************************************************)
(* Timer (hooks/useTimer.ts), from section 4.3 of the specification        *)
(***************************************************************************)
timerStart(S) ==
  IF S.timerState \in {"IDLE", "STOPPED"}
  THEN [S EXCEPT !.timerState = "RUNNING",
                 !.time = IF S.timerState = "IDLE" THEN 0 ELSE @]
  ELSE S

timerPause(S) ==
  IF S.timerState = "RUNNING" THEN [S EXCEPT !.timerState = "PAUSED"] ELSE S

timerResume(S) ==
  IF S.timerState = "PAUSED" THEN [S EXCEPT !.timerState = "RUNNING"] ELSE S

timerStop(S) == [S EXCEPT !.timerState = "STOPPED"]

timerReset(S) == [S EXCEPT !.timerState = "IDLE", !.time = 0]

(***************************************************************************)
(* Persistence adapter calls made by the engine                            *)
(***************************************************************************)
saveGameState(S) == saveToStorage(S, "lastGameState", TRUE)

\* faulty variant: the snapshot is left in the store
clearGameStateKeeps(S) == S

clearGameState(S) == removeFromStorage(S, "lastGameState")

\* (1000 * 60 * 60): milliseconds in an hour
MS_PER_HOUR == 3600000

\* the age, in hours, above which a snapshot is discarded
STALE_HOURS == 24

\* faulty variant: a snapshot of exactly 24 hours is discarded too
loadGameStateAtLeast(stored, now) ==
  IF stored = <<>> THEN [returned |-> <<>>, stored |-> stored]
  ELSE IF now - stored[1].savedAt >= STALE_HOURS * MS_PER_HOUR
       THEN [returned |-> <<>>, stored |-> <<>>]
       ELSE [returned |-> stored, stored |-> stored]

\* loadGameState: `stored` is what the store holds under LAST_GAME_STATE,
\* <<>> for nothing (getItem gives null) or <<snapshot>>, savedAt and now in
\* milliseconds since the epoch (toISOString and new Date(string) keep the
\* milliseconds); the result is the returned value, <<>> for null, and what
\* the store holds afterwards.  hoursDifference > 24 is compared in
\* milliseconds.
loadGameState(stored, now) ==
  IF stored = <<>> THEN [returned |-> <<>>, stored |-> stored]
  ELSE IF now - stored[1].savedAt > STALE_HOURS * MS_PER_HOUR
       THEN [returned |-> <<>>, stored |-> <<>>]
       ELSE [returned |-> stored, stored |-> stored]

(***************************************************************************)
(* hooks/useGameLogic.ts                                                   *)
(***************************************************************************)
totalPairsOf(S) == Len(S.cards) \div 2

initializeGame(S, rs, r) ==
  LET cleared == IF S.processingTimeoutRef # 0
                 THEN clearTimeout(S, S.processingTimeoutRef) ELSE S
  IN  [timerReset(cleared) EXCEPT
         !.cards = generateCards(S.difficulty, S.themeId, S.gen + 1, rs, r),
         !.gen = S.gen + 1,
         !.flippedCards = <<>>,
         !.matchedPairs = 0,
         !.moves = 0,
         !.score = 0,
         !.isGameStarted = FALSE,
         !.isGameComplete = FALSE,
         !.isGamePaused = FALSE,
         !.isProcessing = FALSE,
         !.gameCompleteTriggeredRef = FALSE,
         !.processingTimeoutRef = 0,
         !.completionRuns = 0,
         !.statsAtInit = S.playerStats.gamesPlayed,
         !.notifiedCur = 0]

startGame(S) ==
  timerStart([S EXCEPT !.isGameStarted = TRUE, !.isGamePaused = FALSE])

\* faulty variant: the stored snapshot is not cleared
resetGameKeepsSnapshot(S, r) == initializeGame(S, r, r)

\* faulty variant: the request is not refused once the game has started
handleDifficultyChangeAlways(S, newDifficulty, r) ==
  initializeGame([S EXCEPT !.difficulty = newDifficulty], r, r)

\* App.handleDifficultyChange: ignored once the game has started; otherwise
\* the new difficulty prop re-runs the initializeGame effect of the hook
handleDifficultyChange(S, newDifficulty, r) ==
  IF ~S.isGameStarted
  THEN initializeGame([S EXCEPT !.difficulty = newDifficulty], r, r)
  ELSE S

\* r stands for the random numbers drawn by the two shuffles
resetGame(S, r) == clearGameState(initializeGame(S, r, r))

\* faulty variant: the early return is missing
pauseGameUnguarded(S) ==
  saveGameState(timerPause([S EXCEPT !.isGamePaused = TRUE]))

\* faulty variant: the pending comparison is cancelled by the pause
pauseGameCancels(S) ==
  IF ~S.isGameStarted \/ S.isGameComplete THEN S
  ELSE LET cleared == IF S.processingTimeoutRef # 0
                      THEN clearTimeout(S, S.processingTimeoutRef) ELSE S
       IN  saveGameState(timerPause([cleared EXCEPT !.isGamePaused = TRUE]))

\* faulty variant: the pause is abandoned when the snapshot cannot be stored
pauseGameTransactional(S) ==
  IF ~S.isGameStarted \/ S.isGameComplete \/ S.storageFails THEN S
  ELSE saveGameState(timerPause([S EXCEPT !.isGamePaused = TRUE]))

pauseGame(S) ==
  IF ~S.isGameStarted \/ S.isGameComplete THEN S
  ELSE saveGameState(timerPause([S EXCEPT !.isGamePaused = TRUE]))

resumeGame(S) ==
  IF ~S.isGamePaused THEN S
  ELSE timerResume([S EXCEPT !.isGamePaused = FALSE])

\* faulty variant: a face-up card is not refused
canFlipCardIgnoresFaceUp(S, card) ==
  IF ~S.isGameStarted \/ S.isGameComplete \/ S.isGamePaused \/ S.isProcessing
  THEN FALSE
  ELSE IF card.isMatched THEN FALSE
  ELSE IF Len(S.flippedCards) >= 2 THEN FALSE
  ELSE TRUE

\* faulty variant: on a Complete board the guard lets every click through
canFlipCardWhenComplete(S, card) ==
  IF S.isGameComplete THEN TRUE
  ELSE IF ~S.isGameStarted \/ S.isGamePaused \/ S.isProcessing THEN FALSE
  ELSE IF card.isMatched \/ card.isFlipped THEN FALSE
  ELSE IF Len(S.flippedCards) >= 2 THEN FALSE
  ELSE TRUE

canFlipCard(S, card) ==
  IF ~S.isGameStarted \/ S.isGameComplete \/ S.isGamePaused \/ S.isProcessing
  THEN FALSE
  ELSE IF card.isMatched \/ card.isFlipped THEN FALSE
  ELSE IF Len(S.flippedCards) >= 2 THEN FALSE
  ELSE TRUE

flipCard(S, cardId) ==
  [S EXCEPT !.cards = [i \in 1..Len(@) |->
     IF @[i].id = cardId THEN [@[i] EXCEPT !.isFlipped = TRUE] ELSE @[i]]]

\* faulty variant: every card of the board is turned face-down
unflipCardsAll(S, cardIds) ==
  [S EXCEPT !.cards = [i \in 1..Len(@) |-> [@[i] EXCEPT !.isFlipped = FALSE]]]

unflipCards(S, cardIds) ==
  [S EXCEPT !.cards = [i \in 1..Len(@) |->
     IF @[i].id \in cardIds THEN [@[i] EXCEPT !.isFlipped = FALSE] ELSE @[i]]]

markCardsAsMatched(S, cardIds) ==
  [S EXCEPT !.cards = [i \in 1..Len(@) |->
     IF @[i].id \in cardIds
     THEN [@[i] EXCEPT !.isMatched = TRUE, !.isFlipped = TRUE] ELSE @[i]]]

\* handleMatch of the render in which the second card was clicked: tm carries
\* the matchedPairs, moves, timer.time and difficulty of that render
handleMatch(S, tm) ==
  [markCardsAsMatched(S, {tm.c1.id, tm.c2.id}) EXCEPT
     !.matchedPairs = @ + 1,
     !.flippedCards = <<>>,
     !.score = calculateScore(tm.mv + 1, tm.t, tm.d, tm.mp + 1),
     !.isProcessing = FALSE]

handleNoMatch(S, tm) ==
  LET cb == Callback(S, "nomatch", ANIMATION_DURATION.NO_MATCH_DELAY, tm.c1, tm.c2)
  IN  [setTimeout(S, cb) EXCEPT !.processingTimeoutRef = cb.id]

\* faulty variant: the unflip leaves the processing flag set
noMatchCallbackKeepsProcessing(S, tm) ==
  [unflipCards(S, {tm.c1.id, tm.c2.id}) EXCEPT !.flippedCards = <<>>]

\* the callback handleNoMatch schedules
noMatchCallback(S, tm) ==
  [unflipCards(S, {tm.c1.id, tm.c2.id}) EXCEPT
     !.flippedCards = <<>>,
     !.isProcessing = FALSE]

\* the callback handleCardClick schedules for the second card
comparisonCallback(S, tm) ==
  IF checkCardsMatch(tm.c1, tm.c2) THEN handleMatch(S, tm) ELSE handleNoMatch(S, tm)

\* cards.find((c) => c.id === cardId): the index of the card, 0 if there is none
findCard(S, cardId) ==
  IF \E i \in 1..Len(S.cards) : S.cards[i].id = cardId
  THEN CHOOSE i \in 1..Len(S.cards) :
         /\ S.cards[i].id = cardId
         /\ \A j \in 1..(i - 1) : S.cards[j].id # cardId
  ELSE 0

handleCardClick(S, cardId) ==
  LET i == findCard(S, cardId) IN
  IF i = 0 THEN S
  ELSE IF ~canFlipCard(S, S.cards[i]) THEN S
  ELSE
    LET card == S.cards[i]
        started == IF ~S.isGameStarted THEN startGame(S) ELSE S
        newFlippedCards == Append(S.flippedCards, card)
        flipped == [flipCard(started, cardId) EXCEPT !.flippedCards = newFlippedCards]
    IN  IF Len(newFlippedCards) = 2
        THEN LET cb == [Callback(S, "comparison", ANIMATION_DURATION.CARD_FLIP,
                                 newFlippedCards[1], newFlippedCards[2])
                          EXCEPT !.mp = S.matchedPairs, !.mv = S.moves,
                                 !.t = S.time, !.d = S.difficulty]
             IN  [setTimeout(flipped, cb) EXCEPT
                    !.isProcessing = TRUE,
                    !.moves = @ + 1,
                    !.comparisons = @ + 1,
                    !.processingTimeoutRef = cb.id]
        ELSE flipped

handleGameCompletion(S) ==
  IF S.gameCompleteTriggeredRef THEN S
  ELSE
    LET finalScore == calculateScore(S.moves, S.time, S.difficulty, S.matchedPairs)
        isNewHighScore == isHighScore(S.highScores, finalScore)
        highScore == [moves |-> S.moves, time |-> S.time,
                      difficulty |-> S.difficulty, score |-> finalScore]
        stopped == timerStop([S EXCEPT !.gameCompleteTriggeredRef = TRUE,
                                       !.isGameComplete = TRUE,
                                       !.score = finalScore,
                                       !.completionRuns = @ + 1])
        scored == IF isNewHighScore
                  THEN saveToStorage(stopped, "highScores",
                                     addHighScore(S.highScores, highScore))
                  ELSE stopped
        stored == clearGameState(
                    saveToStorage(scored, "playerStats",
                                  savePlayerStats(
                                    updatePlayerStats(S.playerStats, S.moves, S.time, TRUE))))
        cb == [Callback(S, "notify", ANIMATION_DURATION.MATCH_DELAY, NoCard, NoCard)
                 EXCEPT !.mv = S.moves, !.t = S.time, !.d = S.difficulty,
                        !.sc = finalScore]
    IN  setTimeout(stored, cb)

\* the delayed call of onGameComplete(completionStats)
notifyCallback(S, tm) ==
  IF tm.gen = S.gen
  THEN [S EXCEPT !.notifiedCur = @ + 1]
  ELSE [S EXCEPT !.notifiedStale = @ + 1]

\* faulty variant: the completion check is not one-shot
completionCheckEffectRepeats(S) ==
  IF S.isGameStarted /\ Len(S.cards) > 0 /\ isGameWon(S.cards)
  THEN handleGameCompletion([S EXCEPT !.gameCompleteTriggeredRef = FALSE])
  ELSE S

\* useEffect "Check for game completion"
completionCheckEffect(S) ==
  IF /\ S.isGameStarted
     /\ ~S.isGameComplete
     /\ ~S.gameCompleteTriggeredRef
     /\ Len(S.cards) > 0
     /\ isGameWon(S.cards)
  THEN handleGameCompletion(S)
  ELSE S

\* useEffect "Auto-flip last remaining pair when only 1 pair is left"
autoFlipEffect(S) ==
  IF /\ S.isGameStarted
     /\ ~S.isGamePaused
     /\ ~S.isProcessing
     /\ ~S.isGameComplete
     /\ totalPairsOf(S) > 0
     /\ totalPairsOf(S) - S.matchedPairs = 1
  THEN LET unmatchedCards == SelectSeq(S.cards, LAMBDA c : ~c.isMatched) IN
       IF Len(unmatchedCards) = 2
       THEN LET S1 == setTimeout([S EXCEPT !.isProcessing = TRUE],
                        Callback(S, "autoFlip", 500, unmatchedCards[1], NoCard))
                S2 == setTimeout(S1,
                        Callback(S1, "autoFlip", 800, unmatchedCards[2], NoCard))
            IN  setTimeout(S2,
                  Callback(S2, "autoResolve", ANIMATION_DURATION.CARD_FLIP + 900,
                           unmatchedCards[1], unmatchedCards[2]))
       ELSE S
  ELSE S

\* the first two callbacks of the auto-flip effect
autoFlipCallback(S, tm) == flipCard(S, tm.c1.id)

\* faulty variant: the auto-resolved pair is counted as a move
autoResolveCallbackCountsMove(S, tm) ==
  IF checkCardsMatch(tm.c1, tm.c2)
  THEN [markCardsAsMatched(S, {tm.c1.id, tm.c2.id}) EXCEPT
          !.matchedPairs = @ + 1,
          !.moves = @ + 1,
          !.flippedCards = <<>>,
          !.isProcessing = FALSE]
  ELSE S

\* the third callback of the auto-flip effect
autoResolveCallback(S, tm) ==
  IF checkCardsMatch(tm.c1, tm.c2)
  THEN [markCardsAsMatched(S, {tm.c1.id, tm.c2.id}) EXCEPT
          !.matchedPairs = @ + 1,
          !.flippedCards = <<>>,
          !.isProcessing = FALSE]
  ELSE S

\* the dependencies of the auto-save effect
autoSaveDeps(S) ==
  <<S.isGameStarted, S.isGameComplete, S.isGamePaused, S.cards, S.matchedPairs,
    S.moves, S.score, S.difficulty, S.time>>

\* setInterval(..., 30000), in seconds
AUTO_SAVE_SECONDS == 30

\* useEffect "Auto-save game state periodically": when a dependency differs
\* from the previous render (the state the step started from) the cleanup
\* clears the interval and the effect sets up a new one, unless the session
\* is not started, complete or paused
autoSaveEffect(S) ==
  IF ~S.isGameStarted \/ S.isGameComplete \/ S.isGamePaused
  THEN [S EXCEPT !.autoSaveDue = 0]
  ELSE IF S.autoSaveDue = 0 \/ autoSaveDeps(S) # autoSaveDeps(Cur)
       THEN [S EXCEPT !.autoSaveDue = AUTO_SAVE_SECONDS]
       ELSE S

\* the callback of the auto-save interval
autoSaveCallback(S) == saveGameState(S)

\* one second passes with the Timer running: the Timer's tick adds a second,
\* and the auto-save interval fires if it has waited 30 seconds
tick(S) ==
  LET S1 == [S EXCEPT !.time = @ + 1,
                      !.autoSaveDue = IF @ > 1 THEN @ - 1 ELSE @]
  IN  IF S.autoSaveDue = 1
      THEN autoSaveCallback([S1 EXCEPT !.autoSaveDue = AUTO_SAVE_SECONDS])
      ELSE S1

\* unmount: React runs the cleanup of every effect that returned one, the
\* "Cleanup on unmount" effect (clearTimeout of processingTimeoutRef) and
\* the auto-save effect (clearInterval); the other effects return none
unmount(S) ==
  LET cleared == IF S.processingTimeoutRef # 0
                 THEN clearTimeout(S, S.processingTimeoutRef) ELSE S
  IN  [cleared EXCEPT !.autoSaveDue = 0]

\* the passive effects that follow a render, in declaration order
Effects(S) == autoFlipEffect(autoSaveEffect(completionCheckEffect(S)))

\* the body of a pending callback, by its kind
runCallback(S, tm) ==
  CASE tm.kind = "comparison"  -> comparisonCallback(S, tm)
    [] tm.kind = "nomatch"     -> noMatchCallback(S, tm)
    [] tm.kind = "autoFlip"    -> autoFlipCallback(S, tm)
    [] tm.kind = "autoResolve" -> autoResolveCallback(S, tm)
    [] tm.kind = "notify"      -> notifyCallback(S, tm)

\* the state when callback i of the queue has left it and run, before the effects
Fired(S, i) == runCallback([S EXCEPT !.timers = RemoveAt(@, i)], S.timers[i])

\* the same, with the effects of the re-render
Firing(S, i) == Effects(Fired(S, i))

(***************************************************************************)
(* Initial state: the hook mounted, its mount effect (initializeGame) run  *)
(***************************************************************************)
Mounted(d, t, rs, r) ==
  initializeGame(
    [cards |-> <<>>, flippedCards |-> <<>>, matchedPairs |-> 0, moves |-> 0,
     score |-> 0, isGameStarted |-> FALSE, isGameComplete |-> FALSE,
     isGamePaused |-> FALSE, isProcessing |-> FALSE, processingTimeoutRef |-> 0,
     gameCompleteTriggeredRef |-> FALSE, timerState |-> "IDLE", time |-> 0,
     timers |-> <<>>, difficulty |-> d, themeId |-> t, gen |-> 0,
     autoSaveDue |-> 0, lastGameState |-> FALSE,
     highScores |-> <<>>, playerStats |-> defaultStats,
     gameSettings |-> DEFAULT_SETTINGS, playerName |-> "", themePreference |-> "light",
     storageFails |-> FALSE,
     completionRuns |-> 0,
     statsAtInit |-> 0, notifiedCur |-> 0, notifiedStale |-> 0,
     comparisons |-> 0], rs, r)

InitAs(R) ==
    /\ cards = R.cards
    /\ flippedCards = R.flippedCards
    /\ matchedPairs = R.matchedPairs
    /\ moves = R.moves
    /\ score = R.score
    /\ isGameStarted = R.isGameStarted
    /\ isGameComplete = R.isGameComplete
    /\ isGamePaused = R.isGamePaused
    /\ isProcessing = R.isProcessing
    /\ processingTimeoutRef = R.processingTimeoutRef
    /\ gameCompleteTriggeredRef = R.gameCompleteTriggeredRef
    /\ timerState = R.timerState
    /\ time = R.time
    /\ timers = R.timers
    /\ difficulty = R.difficulty
    /\ themeId = R.themeId
    /\ gen = R.gen
    /\ autoSaveDue = R.autoSaveDue
    /\ lastGameState = R.lastGameState
    /\ highScores = R.highScores
    /\ playerStats = R.playerStats
    /\ gameSettings = R.gameSettings
    /\ playerName = R.playerName
    /\ themePreference = R.themePreference
    /\ storageFails = R.storageFails
    /\ completionRuns = R.completionRuns
    /\ statsAtInit = R.statsAtInit
    /\ notifiedCur = R.notifiedCur
    /\ notifiedStale = R.notifiedStale
    /\ comparisons = R.comparisons
    /\ call = NoCall

\* App renders the hook with the context's selectedTheme, which is 'default'
Init ==
  \E d \in PlayedDifficulties, r \in 0..MaxShuffle :
    InitAs(Effects(Mounted(d, "default", r, r)))

(***************************************************************************)
(* Actions: one per operation of the hook and per delayed callback         *)
(***************************************************************************)
CardIds == {cards[i].id : i \in 1..Len(cards)}

\* the calls that change nothing are stuttering steps and need no action
StartGame ==
  /\ startGame(Cur) # Cur
  /\ Apply(Effects(startGame(Cur)))

PauseGame ==
  /\ pauseGame(Cur) # Cur
  /\ Apply(Effects(pauseGame(Cur)))

ResumeGame ==
  /\ resumeGame(Cur) # Cur
  /\ Apply(Effects(resumeGame(Cur)))

ResetGame ==
  /\ gen < MaxSessions
  /\ \E r \in 0..MaxShuffle : Apply(Effects(resetGame(Cur, r)))

\* a click on a card of the board; a click that would start a comparison is
\* offered while comparisons < MaxMoves
HandleCardClick ==
  \E cardId \in CardIds :
    /\ Len(flippedCards) = 1 => comparisons < MaxMoves
    /\ Apply(Effects(handleCardClick(Cur, cardId)))

ChangeDifficulty ==
  /\ gen < MaxSessions
  /\ \E d \in PlayedDifficulties \ {difficulty}, r \in 0..MaxShuffle :
       /\ handleDifficultyChange(Cur, d, r) # Cur
       /\ Apply(Effects(handleDifficultyChange(Cur, d, r)))

\* the one-second tick of the Timer
Tick ==
  /\ timerState = "RUNNING"
  /\ time < MaxTime
  /\ Apply(Effects(tick(Cur)))

\* a pending callback that is due leaves the queue and runs
FireComparison ==
  \E i \in 1..Len(timers) :
    /\ timers[i].kind = "comparison"
    /\ Fireable(i)
    /\ Apply(Firing(Cur, i))

FireNoMatch ==
  \E i \in 1..Len(timers) :
    /\ timers[i].kind = "nomatch"
    /\ Fireable(i)
    /\ Apply(Firing(Cur, i))

FireAutoFlip ==
  \E i \in 1..Len(timers) :
    /\ timers[i].kind = "autoFlip"
    /\ Fireable(i)
    /\ Apply(Firing(Cur, i))

FireAutoResolve ==
  \E i \in 1..Len(timers) :
    /\ timers[i].kind = "autoResolve"
    /\ Fireable(i)
    /\ Apply(Firing(Cur, i))

FireNotify ==
  \E i \in 1..Len(timers) :
    /\ timers[i].kind = "notify"
    /\ Fireable(i)
    /\ Apply(Firing(Cur, i))

Next ==
  \/ StartGame
  \/ PauseGame
  \/ ResumeGame
  \/ ResetGame
  \/ HandleCardClick
  \/ ChangeDifficulty
  \/ Tick
  \/ FireComparison
  \/ FireNoMatch
  \/ FireAutoFlip
  \/ FireAutoResolve
  \/ FireNotify

Spec == Init /\ [][Next]_vars

(***************************************************************************)
(* The deck generator alone: the hook is rendered with every difficulty    *)
(* and every themeId, and re-rendered with other ones, which runs          *)
(* initializeGame and with it generateCards.                               *)
(***************************************************************************)
InitDeck ==
  \E d \in Difficulty, t \in ThemeInputs, rs \in 0..MaxShuffle, r \in 0..MaxShuffle :
    InitAs(Effects(Mounted(d, t, rs, r)))

\* the effect "Initialize game on mount or difficulty/theme change"
Reinitialize ==
  /\ gen < MaxSessions
  /\ \E d \in Difficulty, t \in ThemeInputs, rs \in 0..MaxShuffle, r \in 0..MaxShuffle :
       /\ <<d, t>> # <<difficulty, themeId>>
       /\ Apply(Effects(initializeGame([Cur EXCEPT !.difficulty = d, !.themeId = t], rs, r)))

NextDeck == Reinitialize

SpecDeck == InitDeck /\ [][NextDeck]_vars

(***************************************************************************)
(* The persistence adapter alone: the leaderboard under any sequence of    *)
(* addHighScore, saveHighScores and importGameData calls.                  *)
(***************************************************************************)
StoreEntries ==
  {[moves |-> 3, time |-> tm, difficulty |-> "EASY", score |-> sc] :
     tm \in {1, 2}, sc \in {100, 200}} \ {[moves |-> 3, time |-> 2, difficulty |-> "EASY", score |-> 100]}

\* the lists handed to saveHighScores or found in a backup: empty, short and
\* unsorted, and longer than MAX_HIGH_SCORES
ScoreLists ==
  {<<>>}
  \cup {<<a, b>> : a \in StoreEntries, b \in StoreEntries}
  \cup {[i \in 1..(MAX_HIGH_SCORES + 2) |->
          [moves |-> 3, time |-> IF i % 3 = 0 THEN 1 ELSE 2, difficulty |-> "EASY",
           score |-> IF i % 2 = 0 THEN 200 ELSE 100]]}

\* the backups handed to importGameData: with and without the mandatory
\* sub-records
Backups ==
  {[parses |-> TRUE,
    hasHighScores |-> h, hasPlayerStats |-> p, hasGameSettings |-> g,
    highScores |-> l,
    playerStats |-> [gamesPlayed |-> 1, gamesWon |-> 1, bestTime |-> 30,
                     bestMoves |-> 5, totalMoves |-> 5],
    gameSettings |-> [DEFAULT_SETTINGS EXCEPT !.theme = "dark"],
    playerName |-> "", themePreference |-> ""] :
     h \in BOOLEAN, p \in BOOLEAN, g \in BOOLEAN, l \in ScoreLists}

\* nothing is stored yet
InitStore == InitAs(Effects(Mounted("EASY", "default", 0, 0)))

AddHighScore ==
  \E e \in StoreEntries :
    /\ addHighScore(highScores, e) # highScores
    /\ Apply([Cur EXCEPT !.highScores = addHighScore(@, e)])

SaveHighScores ==
  \E l \in ScoreLists :
    /\ saveHighScores(l) # highScores
    /\ Apply([Cur EXCEPT !.highScores = saveHighScores(l)])

ImportGameData ==
  \E data \in Backups :
    /\ importGameData(Cur, data) # Cur
    /\ Apply(importGameData(Cur, data))

NextStore == AddHighScore \/ SaveHighScores \/ ImportGameData

SpecStore == InitStore /\ [][NextStore]_vars

(***************************************************************************)
(* importGameData alone: applied, any number of times, to blobs that do    *)
(* not parse, lack mandatory sub-records, or are complete.                 *)
(***************************************************************************)
ImportBlobs ==
  {[parses |-> ok,
    hasHighScores |-> h, hasPlayerStats |-> p, hasGameSettings |-> g,
    highScores |-> l,
    playerStats |-> [gamesPlayed |-> 1, gamesWon |-> 1, bestTime |-> 30,
                     bestMoves |-> 5, totalMoves |-> 5],
    gameSettings |-> [DEFAULT_SETTINGS EXCEPT !.theme = "dark"],
    playerName |-> n, themePreference |-> th] :
     ok \in BOOLEAN, h \in BOOLEAN, p \in BOOLEAN, g \in BOOLEAN,
     l \in {<<>>} \cup {<<a, [moves |-> 3, time |-> 1, difficulty |-> "EASY", score |-> 200]>> :
                           a \in StoreEntries},
     n \in {"", " ", " Ann "}, th \in {"", "dark"}}

ImportBlob ==
  \E data \in ImportBlobs :
    LET R == importGameData(Cur, data) IN
    /\ highScores' = R.highScores
    /\ playerStats' = R.playerStats
    /\ gameSettings' = R.gameSettings
    /\ playerName' = R.playerName
    /\ themePreference' = R.themePreference
    /\ call' = [fn |-> "importGameData", args |-> <<data>>,
                out |-> importGameDataReturns(data)]
    /\ UNCHANGED <<cards, flippedCards, matchedPairs, moves, score, isGameStarted,
                   isGameComplete, isGamePaused, isProcessing, processingTimeoutRef,
                   gameCompleteTriggeredRef, timerState, time, timers, difficulty,
                   themeId, gen, autoSaveDue, lastGameState, storageFails,
                   completionRuns, statsAtInit, notifiedCur, notifiedStale, comparisons>>

NextImport == ImportBlob

SpecImport == InitStore /\ [][NextImport]_vars

(***************************************************************************)
(* The persistence adapter alone: the player statistics under any sequence *)
(* of recorded games, won or not, starting with nothing stored.            *)
(***************************************************************************)
StatsMoves == {3, 5}
StatsTimes == {30, 45}

RecordGame ==
  /\ playerStats.gamesPlayed < MaxGames
  /\ \E m \in StatsMoves, t \in StatsTimes, isWon \in BOOLEAN :
       LET updatedStats == updatePlayerStats(playerStats, m, t, isWon) IN
       /\ playerStats' = savePlayerStats(updatedStats)
       /\ call' = [fn |-> "updatePlayerStats", args |-> <<m, t, isWon>>,
                   out |-> updatedStats]
  /\ UNCHANGED <<cards, flippedCards, matchedPairs, moves, score, isGameStarted,
                 isGameComplete, isGamePaused, isProcessing, processingTimeoutRef,
                 gameCompleteTriggeredRef, timerState, time, timers, difficulty,
                 themeId, gen, autoSaveDue, lastGameState, highScores, gameSettings,
                 playerName, themePreference, storageFails,
                 completionRuns, statsAtInit, notifiedCur, notifiedStale, comparisons>>

NextStats == RecordGame

SpecStats == InitStore /\ [][NextStats]_vars

(***************************************************************************)
(* The score calculator alone: calculateScore applied to moves, elapsed    *)
(* time, a difficulty and a number of matched pairs up to the pair count.  *)
(***************************************************************************)
engineVars ==
  <<cards, flippedCards, matchedPairs, moves, score, isGameStarted,
    isGameComplete, isGamePaused, isProcessing, processingTimeoutRef,
    gameCompleteTriggeredRef, timerState, time, timers, difficulty, themeId, gen,
    autoSaveDue, lastGameState, highScores, playerStats, gameSettings,
    playerName, themePreference, storageFails,
    completionRuns, statsAtInit, notifiedCur, notifiedStale, comparisons>>

(***************************************************************************)
(* Backup and restore: the store is changed through the adapter, exported, *)
(* changed again and restored from the exported blob.                      *)
(***************************************************************************)
\* a call of savePlayerName, saveThemePreference, saveGameSettings,
\* addHighScore or updatePlayerStats (a won game), before an export or
\* between the export and the import
ChangeStore ==
  /\ call.fn # "restore"
  /\ Len(highScores) < 2 /\ playerStats.gamesPlayed < 2
  /\ \E R \in
          {saveToStorage(Cur, "playerName", savePlayerName(n)) : n \in {" Ann ", "Bob"}}
          \cup {saveToStorage(Cur, "themePreference", th) : th \in {"light", "dark"}}
          \cup {saveToStorage(Cur, "gameSettings", [DEFAULT_SETTINGS EXCEPT !.theme = th]) :
                  th \in {"light", "dark"}}
          \cup {saveToStorage(Cur, "highScores", addHighScore(highScores, e)) :
                  e \in StoreEntries}
          \cup {saveToStorage(Cur, "playerStats",
                     savePlayerStats(updatePlayerStats(playerStats, 5, 30, TRUE)))} :
       /\ R # Cur
       /\ Apply(R)

ExportGameData ==
  /\ call.fn # "exportGameData"
  /\ call' = [fn |-> "exportGameData", args |-> <<highScores, playerStats, gameSettings, playerName,
                                                  themePreference>>,
              out |-> exportGameData(Cur)]
  /\ UNCHANGED engineVars

\* importGameData applied to the blob exported earlier; call.args keeps the
\* five records as they were at the export
RestoreBackup ==
  /\ call.fn = "exportGameData"
  /\ LET R == importGameData(Cur, call.out) IN
       /\ highScores' = R.highScores
       /\ playerStats' = R.playerStats
       /\ gameSettings' = R.gameSettings
       /\ playerName' = R.playerName
       /\ themePreference' = R.themePreference
  /\ call' = [fn |-> "restore", args |-> call.args,
              out |-> importGameDataReturns(call.out)]
  /\ UNCHANGED <<cards, flippedCards, matchedPairs, moves, score, isGameStarted,
                 isGameComplete, isGamePaused, isProcessing, processingTimeoutRef,
                 gameCompleteTriggeredRef, timerState, time, timers, difficulty,
                 themeId, gen, autoSaveDue, lastGameState, storageFails,
                 completionRuns, statsAtInit, notifiedCur, notifiedStale, comparisons>>

NextRoundTrip == ChangeStore \/ ExportGameData \/ RestoreBackup

SpecRoundTrip == InitStore /\ [][NextRoundTrip]_vars

InitScore == InitAs(Effects(Mounted("EASY", "default", 0, 0)))

\* the move counts tried: every short game, and games long enough for the
\* move penalty to exceed everything else
ScoreMoves == 0..MaxScoreMoves \cup {300, 500, 700}

\* one application per behaviour: the function is pure
CallCalculateScore ==
  /\ call = NoCall
  /\ \E m \in ScoreMoves, t \in 0..MaxScoreTime, d \in Difficulty :
       \E p \in 0..pairCount(d) :
         call' = [fn |-> "calculateScore", args |-> <<m, t, d, p>>,
                  out |-> calculateScore(m, t, d, p)]
  /\ UNCHANGED engineVars

NextScore == CallCalculateScore

SpecScore == InitScore /\ [][NextScore]_vars

(***************************************************************************)
(* loadGameState alone: applied to a store that holds nothing or a         *)
(* snapshot written by saveGameState, at a time before, at and after the   *)
(* 24 hours that follow savedAt.                                           *)
(***************************************************************************)
SavedAts == {0, 1000}

Snapshots ==
  {[savedAt |-> t, moves |-> m, matchedPairs |-> mp, timeElapsed |-> e] :
     t \in SavedAts, m \in 0..MaxMoves, mp \in 0..2, e \in {0, 30}}

\* offsets of the clock from savedAt when loadGameState runs (the clock may
\* have been set back)
Ages ==
  {-1, 0, 1, STALE_HOURS * MS_PER_HOUR - 1, STALE_HOURS * MS_PER_HOUR,
   STALE_HOURS * MS_PER_HOUR + 1, 2 * STALE_HOURS * MS_PER_HOUR}

CallLoadGameState ==
  /\ call = NoCall
  /\ \E stored \in {<<>>} \cup {<<snap>> : snap \in Snapshots}, age \in Ages :
       LET now == IF stored = <<>> THEN age ELSE stored[1].savedAt + age IN
       call' = [fn |-> "loadGameState", args |-> <<stored, now>>,
                out |-> loadGameState(stored, now)]
  /\ UNCHANGED engineVars

NextSnapshot == CallLoadGameState

SpecSnapshot == InitScore /\ [][NextSnapshot]_vars

(***************************************************************************)
(* The same engine driven by a player who remembers every card: the first  *)
(* click goes to the first face-down card of the board, the second to its  *)
(* partner.  The behaviours are behaviours of the engine (with a longer    *)
(* play than MaxMoves allows); pause, resume and the Timer tick are left   *)
(* out.                                                                    *)
(***************************************************************************)
MemoryClick ==
  \E i \in 1..Len(cards) :
    /\ IF flippedCards = <<>>
       THEN /\ ~cards[i].isFlipped /\ ~cards[i].isMatched
            /\ \A j \in 1..(i - 1) : cards[j].isFlipped \/ cards[j].isMatched
       ELSE /\ Len(flippedCards) = 1
            /\ checkCardsMatch(flippedCards[1], cards[i])
            /\ comparisons < MaxMemoryMoves
    /\ handleCardClick(Cur, cards[i].id) # Cur
    /\ Apply(Effects(handleCardClick(Cur, cards[i].id)))

NextMemory ==
  \/ StartGame
  \/ ResetGame
  \/ MemoryClick
  \/ FireComparison
  \/ FireAutoFlip
  \/ FireAutoResolve
  \/ FireNotify

SpecMemory == Init /\ [][NextMemory]_vars

(***************************************************************************)
(* The memory player on a page whose store already holds a full            *)
(* leaderboard, written by saveHighScores in earlier visits: nine entries  *)
(* above every score a game can reach here, and a lowest entry `floor`.    *)
(***************************************************************************)
BoardFloors == {2500, 2600, 2700, 2900}

FullBoard(floor) ==
  [i \in 1..MAX_HIGH_SCORES |->
     [moves |-> 10, time |-> 50, difficulty |-> "EASY",
      score |-> IF i < MAX_HIGH_SCORES THEN 5010 - i ELSE floor]]

InitBoard ==
  \E d \in PlayedDifficulties, r \in 0..MaxShuffle, floor \in BoardFloors :
    InitAs([Effects(Mounted(d, "default", r, r)) EXCEPT !.highScores = FullBoard(floor)])

SpecBoard == InitBoard /\ [][NextMemory]_vars

(***************************************************************************)
(* One session of the memory player, never paused and never reset, with    *)
(* the Timer ticking for more than 30 seconds.                             *)
(***************************************************************************)
LongTick ==
  /\ timerState = "RUNNING"
  /\ time < MaxAutosaveTime
  /\ Apply(Effects(tick(Cur)))

NextAutosave ==
  \/ StartGame
  \/ LongTick
  \/ MemoryClick
  \/ FireComparison
  \/ FireAutoFlip
  \/ FireAutoResolve
  \/ FireNotify

SpecAutosave == Init /\ [][NextAutosave]_vars

(***************************************************************************)
(* The memory player, with pause and resume, on a browser whose            *)
(* localStorage starts or stops refusing writes and removals at any time.  *)
(***************************************************************************)
InitStorage ==
  \E d \in PlayedDifficulties, r \in 0..MaxShuffle, f \in BOOLEAN :
    InitAs([Effects(Mounted(d, "default", r, r)) EXCEPT !.storageFails = f])

\* the quota runs out, or space is freed
StorageFlips ==
  Apply([Cur EXCEPT !.storageFails = ~@])

NextStorage ==
  \/ StartGame
  \/ PauseGame
  \/ ResumeGame
  \/ ResetGame
  \/ MemoryClick
  \/ FireComparison
  \/ FireAutoFlip
  \/ FireAutoResolve
  \/ FireNotify
  \/ StorageFlips

SpecStorage == InitStorage /\ [][NextStorage]_vars

(***************************************************************************)
(* The engine with its delayed callbacks running: the browser runs every   *)
(* pending setTimeout callback once it is due, so no callback stays        *)
(* pending forever.  The Timer tick and changes of difficulty are left     *)
(* out.                                                                    *)
(***************************************************************************)
NextLive ==
  \/ StartGame
  \/ PauseGame
  \/ ResumeGame
  \/ ResetGame
  \/ HandleCardClick
  \/ FireComparison
  \/ FireNoMatch
  \/ FireAutoFlip
  \/ FireAutoResolve
  \/ FireNotify

\* some pending callback that is due runs
FireDue == FireComparison \/ FireNoMatch \/ FireAutoFlip \/ FireAutoResolve \/ FireNotify

\* weak fairness of FireDue, WF_vars(FireDue), with ENABLED <<FireDue>>_vars
\* written out: the head of the queue is always due and running a callback
\* changes the queue, so FireDue is enabled exactly when timers # <<>>
FairTimers == []<>(timers = <<>>) \/ []<><<FireDue>>_vars

SpecLive == Init /\ [][NextLive]_vars /\ FairTimers

TypeOK ==
  /\ matchedPairs \in Nat
  /\ moves \in 0..comparisons
  /\ time \in 0..MaxAutosaveTime
  /\ timerState \in {"IDLE", "RUNNING", "PAUSED", "STOPPED"}
  /\ difficulty \in PlayedDifficulties
  /\ Len(cards) = GAME_CONFIGS[difficulty].totalCards

(***************************************************************************)
(* Observations used by the properties                                     *)
(***************************************************************************)
\* the positions of the cards that are face-up and not matched
FaceUpUnmatched == {i \in 1..Len(cards) : cards[i].isFlipped /\ ~cards[i].isMatched}

\* the pending callbacks of a kind
Pending(kind) == {i \in 1..Len(timers) : timers[i].kind = kind}

\* a pending callback was scheduled by a session that has been superseded
StalePending(kind) == {i \in Pending(kind) : timers[i].gen # gen}

(***************************************************************************)
(* Properties                                                              *)
(***************************************************************************)

\* C1: in every reachable state at most two cards are face-up and unmatched,
\* and flippedCards holds at most two cards.
AtMostTwoFaceUp ==
  /\ Cardinality(FaceUpUnmatched) <= 2
  /\ Len(flippedCards) <= 2

\* the card of the board with this id is face-up / matched in state record S
FaceUpIn(S, cardId) ==
  \E i \in 1..Len(S.cards) : S.cards[i].id = cardId /\ S.cards[i].isFlipped

MatchedIn(S, cardId) ==
  \E i \in 1..Len(S.cards) : S.cards[i].id = cardId /\ S.cards[i].isMatched

\* the click changes none of cards, flippedCards, moves, matchedPairs, score
ClickIsNoOp(cardId) ==
  LET R == Effects(handleCardClick(Cur, cardId)) IN
  /\ R.cards = cards
  /\ R.flippedCards = flippedCards
  /\ R.moves = moves
  /\ R.matchedPairs = matchedPairs
  /\ R.score = score

\* an id that no card has
NoSuchCard == <<0, 0>>

CompletionOnce ==
  LET pendingNotify == {i \in Pending("notify") : timers[i].gen = gen} IN
  /\ completionRuns <= 1
  /\ Len(highScores) = Min(playerStats.gamesPlayed, MAX_HIGH_SCORES)
  /\ IF isGameComplete
     THEN /\ completionRuns = 1
          /\ gameCompleteTriggeredRef
          /\ playerStats.gamesPlayed = statsAtInit + 1
          /\ notifiedCur + Cardinality(pendingNotify) = 1
     ELSE /\ completionRuns = 0
          /\ playerStats.gamesPlayed = statsAtInit
          /\ notifiedCur = 0
          /\ pendingNotify = {}

\* C3 witness: the session is Complete, the callback has been delivered, and
\* further operations (a pause attempt is impossible, so a startGame call that
\* restarts the stopped Timer) have happened since
CompletedAndNotified ==
  /\ isGameComplete
  /\ notifiedCur = 1
  /\ timerState = "RUNNING"
  /\ playerStats.gamesPlayed = 1

\* C4: once the session is Complete, every handleCardClick call leaves cards,
\* flippedCards, moves, matchedPairs and score unchanged.
CompleteClicksNoOp ==
  isGameComplete => \A cardId \in CardIds : ClickIsNoOp(cardId)

\* C4 witness: a Complete session with its board of matched cards
CompleteBoard ==
  /\ isGameComplete
  /\ isGameWon(cards)
  /\ \A cardId \in CardIds : handleCardClick(Cur, cardId) = Cur

\* the pending comparison callbacks of the current session that are due and
\* compare two cards of one pair
DueMatches ==
  {i \in Pending("comparison") :
     /\ timers[i].gen = gen
     /\ Fireable(i)
     /\ timers[i].c1.pairId = timers[i].c2.pairId}

\* C5: when the comparison of two accepted cards of one pair resolves, both
\* cards are matched and face-up, matchedPairs has grown by exactly 1,
\* flippedCards is empty, the processing flag is cleared and score is
\* calculateScore of the updated moves and matchedPairs; for the first
\* comparison of a game matchedPairs = 1 and score = MATCH_BONUS.
MatchResolution ==
  \A i \in DueMatches :
    LET R == Fired(Cur, i) IN
    /\ MatchedIn(R, timers[i].c1.id) /\ FaceUpIn(R, timers[i].c1.id)
    /\ MatchedIn(R, timers[i].c2.id) /\ FaceUpIn(R, timers[i].c2.id)
    /\ R.matchedPairs = matchedPairs + 1
    /\ R.flippedCards = <<>>
    /\ ~R.isProcessing
    /\ R.score = calculateScore(R.moves, R.time, R.difficulty, R.matchedPairs)
    /\ R.moves = 1 => (R.matchedPairs = 1 /\ R.score = SCORING.MATCH_BONUS)

\* the positions of the cards that are not matched
Unmatched == {i \in 1..Len(cards) : ~cards[i].isMatched}

\* C6: whenever an InProgress (not paused) session has exactly one unmatched
\* pair left and no comparison pending, the auto-resolution of that pair is
\* under way: the callback that marks the two cards matched is pending (so
\* that, timers firing, the session completes without a click).
LastPairResolves ==
  ( /\ isGameStarted /\ ~isGamePaused /\ ~isGameComplete
    /\ Cardinality(Unmatched) = 2
    /\ \A i \in Pending("comparison") \cup Pending("nomatch") : timers[i].gen # gen )
  => \E i \in Pending("autoResolve") :
       /\ timers[i].gen = gen
       /\ {timers[i].c1.id, timers[i].c2.id} = {cards[k].id : k \in Unmatched}

\* C7: in every reachable state resetGame leaves the session NotStarted with
\* a freshly generated deck of 2 x pairCount face-down unmatched cards,
\* flippedCards empty, moves = matchedPairs = score = 0, the paused, complete
\* and processing flags false, the one-shot completion flag re-armed and no
\* snapshot in the store.
ResetContract ==
  \A r \in 0..MaxShuffle :
    LET R == Effects(resetGame(Cur, r)) IN
    /\ ~R.isGameStarted /\ ~R.isGamePaused /\ ~R.isGameComplete /\ ~R.isProcessing
    /\ ~R.gameCompleteTriggeredRef
    /\ R.flippedCards = <<>>
    /\ R.moves = 0 /\ R.matchedPairs = 0 /\ R.score = 0
    /\ Len(R.cards) = 2 * pairCount(difficulty)
    /\ \A i \in 1..Len(R.cards) :
         /\ ~R.cards[i].isFlipped /\ ~R.cards[i].isMatched
         /\ R.cards[i].id \notin CardIds
         /\ \A j \in 1..Len(R.cards) : i # j => R.cards[i].id # R.cards[j].id
    /\ ~R.lastGameState

\* C7 witness: the session just created by a resetGame that interrupted the
\* auto-resolution of the last pair of the previous session
ResetMidAutoResolve ==
  /\ gen = 2
  /\ ~isGameStarted /\ ~isGamePaused /\ ~isGameComplete /\ ~isProcessing
  /\ moves = 0 /\ matchedPairs = 0 /\ score = 0
  /\ ~lastGameState
  /\ StalePending("autoResolve") # {}
  /\ \A i \in 1..Len(cards) : ~cards[i].isFlipped /\ ~cards[i].isMatched

\* C8: in every reachable state, a pending callback scheduled by a superseded
\* session that is due leaves cards, flippedCards, matchedPairs, moves and
\* the processing flag of the current session unchanged when it fires.
StaleCallbacksInert ==
  \A i \in 1..Len(timers) :
    (timers[i].gen # gen /\ Fireable(i)) =>
      LET R == Firing(Cur, i) IN
      /\ R.cards = cards
      /\ R.flippedCards = flippedCards
      /\ R.matchedPairs = matchedPairs
      /\ R.moves = moves
      /\ R.isProcessing = isProcessing

\* C9: within a session moves increases by exactly 1 on each accepted
\* second-card click (flippedCards goes from one card to two) and is
\* unchanged by every other step: first-card clicks, start, pause, resume,
\* match and no-match resolution, the auto-resolution of the last pair.
MovesCountComparisons ==
  [][gen' = gen =>
       IF Len(flippedCards) = 1 /\ Len(flippedCards') = 2
       THEN moves' = moves + 1
       ELSE moves' = moves]_vars

\* C9 witness: a game completed by the auto-resolution of its last pair, with
\* one move per comparison the player made
AutoResolvedUncounted ==
  /\ isGameComplete
  /\ matchedPairs = pairCount(difficulty)
  /\ moves = comparisons
  /\ moves = pairCount(difficulty) - 1

\* C10: a handleCardClick on a face-down card while the session is NotStarted
\* starts the session (and the Timer) and flips the card.
FirstClickStarts ==
  ~isGameStarted =>
    \A cardId \in CardIds :
      LET R == Effects(handleCardClick(Cur, cardId)) IN
      /\ R.isGameStarted
      /\ R.timerState = "RUNNING"
      /\ FaceUpIn(R, cardId)

\* C11: pauseGame called while the session is NotStarted changes nothing:
\* the lifecycle flags, the Timer, cards, the counters, the pending callbacks
\* and the stored snapshot are as before.
PauseNotStartedNoOp ==
  ~isGameStarted => Effects(pauseGame(Cur)) = Cur

\* C11 witness: a NotStarted session created after a completed game, with
\* the completion of that game recorded in the store
NotStartedAfterCompletedGame ==
  /\ ~isGameStarted /\ ~isGamePaused /\ ~isGameComplete
  /\ gen = 2
  /\ playerStats.gamesPlayed = 1
  /\ timerState = "IDLE"

\* C12: the deck generateCards returns for the difficulty and themeId of the
\* hook has exactly 2 x pairCount cards (8, 12, 20) with pairwise distinct
\* ids; every pairId is on exactly two cards, which share their face value;
\* every card is face-down and unmatched; the face values are those of the
\* theme named, of the default theme when the id is unknown or omitted.
DeckWellFormed ==
  LET n == Len(cards)
      expectedTheme == IF themeId \in ThemeIds THEN themeId ELSE "animals"
      expectedPairs == CASE difficulty = "EASY" -> 4
                         [] difficulty = "MEDIUM" -> 6
                         [] difficulty = "HARD" -> 10
  IN
  /\ n = 2 * expectedPairs
  /\ n = 2 * pairCount(difficulty)
  /\ \A i \in 1..n : \A j \in 1..n : i # j => cards[i].id # cards[j].id
  /\ \A i \in 1..n :
       /\ Cardinality({j \in 1..n : cards[j].pairId = cards[i].pairId}) = 2
       /\ \A j \in 1..n :
            cards[j].pairId = cards[i].pairId => cards[j].value = cards[i].value
       /\ ~cards[i].isFlipped /\ ~cards[i].isMatched
       /\ cards[i].value[1] = expectedTheme

\* C12 witness: a HARD deck generated for an unknown themeId, after a deck for
\* another theme
HardDeckUnknownTheme ==
  /\ gen = 2
  /\ difficulty = "HARD" /\ themeId = "default"
  /\ Len(cards) = 20
  /\ \E i \in 1..Len(cards) : cards[i].value = <<"animals", 10>>

\* C13: calculateScore is non-decreasing in matchedPairs before completion:
\* for the moves, time and difficulty of an application with matchedPairs = a,
\* every b with a < b < pairCount(difficulty) gives a score at least as high.
ScoreMonotoneInPairs ==
  call.fn = "calculateScore" =>
    LET m == call.args[1]
        t == call.args[2]
        d == call.args[3]
        a == call.args[4]
    IN  \A b \in (a + 1)..(pairCount(d) - 1) :
          call.out <= calculateScore(m, t, d, b)

\* C13 witness: an application before completion that has a larger
\* matchedPairs to compare with, on a difficulty with a time limit and with
\* more moves than the perfect number
ScoredBeforeCompletion ==
  /\ call.fn = "calculateScore"
  /\ call.args = <<21, 100, "HARD", 3>>
  /\ call.out = 300

\* C14: at completion (matchedPairs = pairCount) the score is the match
\* bonuses plus the completion bonus plus the time bonus minus the move
\* penalty, plus the perfect-game bonus exactly when moves = 2 x pairCount;
\* on EASY at 0 seconds, 8 moves score 3100 (with the 500 bonus) and 9 moves
\* score 2595 (without it).
PerfectBonusAtCompletion ==
  (call.fn = "calculateScore" /\ call.args[4] = pairCount(call.args[3])) =>
    LET m == call.args[1]
        t == call.args[2]
        d == call.args[3]
        perfectMoves == 2 * pairCount(d)
        limit == IF d = "EASY" THEN 120 ELSE GAME_CONFIGS[d].timeLimit
        rest == pairCount(d) * 100 + 1000
                + (IF t < limit THEN (limit - t) * 10 ELSE 0)
                - (IF m > perfectMoves THEN (m - perfectMoves) * 5 ELSE 0)
    IN  /\ call.out = Max(0, rest + (IF m = perfectMoves THEN 500 ELSE 0))
        /\ (d = "EASY" /\ t = 0 /\ m = 8) => call.out = 3100
        /\ (d = "EASY" /\ t = 0 /\ m = 9) => call.out = 2595

\* C14 witness: EASY completed in exactly 8 moves at 0 seconds
EasyPerfectGame ==
  /\ call.fn = "calculateScore"
  /\ call.args = <<8, 0, "EASY", 4>>
  /\ call.out = 3100


\* C15: when a game completes with the leaderboard holding its maximum of 10
\* entries, a final score lower than the lowest entry leaves the leaderboard
\* unchanged, and a final score higher than the lowest entry puts the new
\* entry on the leaderboard and removes exactly the entry that was last (the
\* lowest), the others keeping their order.
FullBoardCompletion ==
  [][(Len(highScores) = MAX_HIGH_SCORES /\ completionRuns' = completionRuns + 1) =>
       LET lowest == CHOOSE x \in {highScores[i].score : i \in 1..Len(highScores)} :
                       \A i \in 1..Len(highScores) : x <= highScores[i].score
           entry == [moves |-> moves, time |-> time, difficulty |-> difficulty,
                     score |-> score']
       IN  /\ score' < lowest => highScores' = highScores
           /\ score' > lowest =>
                /\ Len(highScores') = MAX_HIGH_SCORES
                /\ highScores[MAX_HIGH_SCORES].score = lowest
                /\ \E k \in 1..MAX_HIGH_SCORES :
                     /\ highScores'[k] = entry
                     /\ \A i \in 1..(k - 1) : highScores'[i] = highScores[i]
                     /\ \A i \in (k + 1)..MAX_HIGH_SCORES : highScores'[i] = highScores[i - 1]
                /\ \A i \in 1..(MAX_HIGH_SCORES - 1) :
                     highScores'[i].score >= highScores'[i + 1].score]_vars

\* C15 witness: a game completed with 2600 points on a full leaderboard whose
\* lowest entry had 2500: the new entry is the tenth, the 2500 entry is gone
LowestEvicted ==
  /\ completionRuns = 1
  /\ Len(highScores) = MAX_HIGH_SCORES
  /\ highScores[MAX_HIGH_SCORES] =
       [moves |-> 3, time |-> 0, difficulty |-> "EASY", score |-> 2600]
  /\ \A i \in 1..Len(highScores) : highScores[i].score # 2500

\* C16: after any sequence of addHighScore, saveHighScores and importGameData
\* calls the stored leaderboard has at most MAX_HIGH_SCORES (10) entries and
\* is ordered by score descending, ties by time ascending.
LeaderboardSorted ==
  /\ Len(highScores) <= 10
  /\ \A i \in 1..Len(highScores) : \A j \in (i + 1)..Len(highScores) :
       \/ highScores[i].score > highScores[j].score
       \/ /\ highScores[i].score = highScores[j].score
          /\ highScores[i].time <= highScores[j].time

\* C16 witness: a full leaderboard with both scores and, among the entries of
\* the higher score, both times
FullBoardWithTies ==
  /\ Len(highScores) = 10
  /\ highScores[1].score = 200 /\ highScores[1].time = 1
  /\ highScores[10].score = 100
  /\ \E i \in 2..9 : highScores[i].score = 200 /\ highScores[i].time = 2

\* the best value a stored statistic stands for: none yet (Infinity, stored
\* as null) or a number
BestOf(v) == IF v = null \/ v = Infinity THEN Infinity ELSE v

\* C17: when a game is recorded by updatePlayerStats(moves, time, won),
\* bestTime and bestMoves do not increase: each becomes the minimum of its
\* previous value and the game's value when the game is won, and keeps its
\* previous value otherwise.
BestOnlyTightens ==
  [][(playerStats'.gamesPlayed = playerStats.gamesPlayed + 1
        /\ call'.fn = "updatePlayerStats") =>
       LET m == call'.args[1]
           t == call'.args[2]
           won == call'.args[3]
           prevTime == BestOf(playerStats.bestTime)
           prevMoves == BestOf(playerStats.bestMoves)
       IN  /\ BestOf(playerStats'.bestTime) = IF won THEN Min(prevTime, t) ELSE prevTime
           /\ BestOf(playerStats'.bestMoves) = IF won THEN Min(prevMoves, m) ELSE prevMoves
           /\ BestOf(playerStats'.bestTime) <= prevTime
           /\ BestOf(playerStats'.bestMoves) <= prevMoves]_vars

\* C18: while the session is started (InProgress, Paused or Complete) every
\* difficulty-change request is ignored, and no step changes the difficulty
\* or the size of the deck, which is 2 x pairCount(difficulty); they can
\* change only once resetGame has returned the session to NotStarted.
DifficultyFixedWhileStarted ==
  [][isGameStarted =>
       /\ \A d \in Difficulty : \A r \in 0..MaxShuffle :
            handleDifficultyChange(Cur, d, r) = Cur
       /\ difficulty' = difficulty
       /\ Len(cards) = 2 * pairCount(difficulty)
       /\ Len(cards') = Len(cards)]_vars

\* C18 witness: a paused game on the second deck, with a move made
PausedOnSecondDeck ==
  /\ gen = 2
  /\ isGameStarted /\ isGamePaused /\ ~isGameComplete
  /\ moves >= 1
  /\ difficulty = "MEDIUM"

\* C19: a session that has been InProgress, never paused, for 30 seconds of
\* the ticking Timer has had a snapshot written to the store by the
\* auto-save interval.
AutosaveEvery30Seconds ==
  (isGameStarted /\ ~isGamePaused /\ ~isGameComplete /\ time >= 30) => lastGameState

\* C20: in every state where the session is Complete or NotStarted the store
\* holds no snapshot (the store is empty when the page is loaded): completion
\* and resetGame delete it, and nothing writes one in those states.
NoSnapshotWhenCompleteOrNotStarted ==
  (isGameComplete \/ ~isGameStarted) => ~lastGameState

\* C20 witness: a game that completed while paused, after pauseGame had
\* written a snapshot
CompletedWhilePaused ==
  /\ isGameStarted /\ isGameComplete /\ isGamePaused
  /\ completionRuns = 1
  /\ ~lastGameState

\* the in-memory session: the hook's state, refs, Timer and pending callbacks
InMemory(S) ==
  <<S.cards, S.flippedCards, S.matchedPairs, S.moves, S.score, S.isGameStarted,
    S.isGameComplete, S.isGamePaused, S.isProcessing, S.processingTimeoutRef,
    S.gameCompleteTriggeredRef, S.timerState, S.time, S.timers, S.difficulty,
    S.themeId, S.gen, S.autoSaveDue>>

\* C21: in every reachable state, each operation that writes to or removes
\* from the store (pauseGame, the auto-save callback, handleGameCompletion
\* with its high-score and stats commits and its snapshot clear, resetGame,
\* and every due callback and click with the effects that follow it) returns
\* the failure as the value false and reaches the same in-memory session
\* when the store refuses as when the store works.
StorageFailureIgnored ==
  LET StoreWorking == [Cur EXCEPT !.storageFails = FALSE]
      StoreRefusing == [Cur EXCEPT !.storageFails = TRUE]
  IN
  /\ ~storageReturns(StoreRefusing) /\ storageReturns(StoreWorking)
  /\ InMemory(Effects(pauseGame(StoreRefusing))) = InMemory(Effects(pauseGame(StoreWorking)))
  /\ InMemory(autoSaveCallback(StoreRefusing)) = InMemory(autoSaveCallback(StoreWorking))
  /\ InMemory(handleGameCompletion(StoreRefusing)) = InMemory(handleGameCompletion(StoreWorking))
  /\ \A r \in 0..MaxShuffle :
       InMemory(Effects(resetGame(StoreRefusing, r))) = InMemory(Effects(resetGame(StoreWorking, r)))
  /\ \A i \in 1..Len(timers) :
       InMemory(Firing(StoreRefusing, i)) = InMemory(Firing(StoreWorking, i))
  /\ \A cardId \in CardIds :
       InMemory(Effects(handleCardClick(StoreRefusing, cardId)))
         = InMemory(Effects(handleCardClick(StoreWorking, cardId)))

\* a game was completed while the store refused every write: nothing was
\* stored, the session is Complete
CompletedWithRefusingStore ==
  /\ isGameComplete
  /\ completionRuns = 1
  /\ storageFails
  /\ highScores = <<>>
  /\ playerStats = defaultStats
  /\ ~lastGameState
  /\ score > 0

\* C22: loadGameState returns null for an empty store; for a snapshot whose
\* savedAt lies more than 24 hours before the current time it returns null
\* and the store holds no snapshot afterwards; any other snapshot is
\* returned unchanged and is still in the store.
StaleSnapshotDiscarded ==
  call.fn = "loadGameState" =>
    LET stored == call.args[1]
        now == call.args[2]
    IN  IF stored = <<>> THEN call.out.returned = <<>> /\ call.out.stored = <<>>
        ELSE IF now - stored[1].savedAt > 24 * 60 * 60 * 1000
             THEN call.out.returned = <<>> /\ call.out.stored = <<>>
             ELSE call.out.returned = stored /\ call.out.stored = stored

\* a snapshot one millisecond older than 24 hours was discarded
SnapshotJustStale ==
  /\ call.fn = "loadGameState"
  /\ call.args[1] # <<>>
  /\ call.args[2] - call.args[1][1].savedAt = 24 * 60 * 60 * 1000 + 1
  /\ call.out.returned = <<>>
  /\ call.out.stored = <<>>

\* C23: in every reachable state of the store, importGameData applied to a
\* blob that does not parse, or that lacks highScores, playerStats or
\* gameSettings, returns false and leaves the stored high scores, stats,
\* settings, player name and theme preference as they were.
ImportRejectsInvalid ==
  LET StoredRecords(S) ==
        <<S.highScores, S.playerStats, S.gameSettings, S.playerName, S.themePreference>>
  IN
  \A data \in ImportBlobs :
    (~data.parses \/ ~data.hasHighScores \/ ~data.hasPlayerStats \/ ~data.hasGameSettings)
      => /\ importGameDataReturns(data) = FALSE
         /\ StoredRecords(importGameData(Cur, data)) = StoredRecords(Cur)

\* a blob without playerStats was refused by a store that held records
\* restored from an earlier, complete blob
IncompleteBlobRefused ==
  /\ call.fn = "importGameData"
  /\ call.args[1].parses /\ call.args[1].hasHighScores /\ ~call.args[1].hasPlayerStats
  /\ call.args[1].highScores # <<>>
  /\ call.args[1].highScores # highScores
  /\ call.out = FALSE
  /\ highScores # <<>>
  /\ playerName = "Ann"
  /\ themePreference = "dark"

\* C24: in every reachable state, tearing the engine down (unmount) leaves
\* no delayed callback pending: comparison, no-match unflip, the three
\* auto-resolve callbacks and the completion notification are all cancelled.
TeardownCancelsAll ==
  /\ unmount(Cur).timers = <<>>
  /\ unmount(Cur).autoSaveDue = 0

\* C25: the deck of the hook has the number of pairs, and the configured
\* grid the shape, of the game modes table: Easy 2x2 with 2 pairs, Medium
\* 4x4 with 8 pairs, Hard 4x6 with 12 pairs.
GameModesAsDocumented ==
  LET modes == [EASY   |-> [rows |-> 2, columns |-> 2, pairs |-> 2],
                MEDIUM |-> [rows |-> 4, columns |-> 4, pairs |-> 8],
                HARD   |-> [rows |-> 4, columns |-> 6, pairs |-> 12]]
  IN  /\ Len(cards) = 2 * modes[difficulty].pairs
      /\ \A i \in 1..Len(cards) :
           Cardinality({j \in 1..Len(cards) : cards[j].pairId = cards[i].pairId}) = 2
      /\ GAME_CONFIGS[difficulty].rows = modes[difficulty].rows
      /\ GAME_CONFIGS[difficulty].columns = modes[difficulty].columns

\* C26: no session is Complete with fewer moves than the perfect number,
\* 2 x pairCount, of its difficulty.
NoCompletionBelowPerfectMoves ==
  isGameComplete =>
    /\ moves >= 2 * pairCount(difficulty)
    /\ moves >= PERFECT_MOVES[difficulty]

\* C27: pauseGame leaves every pending callback, the cards, flippedCards and
\* matchedPairs as they are; while the session is Paused a due comparison of
\* the session still resolves (a match marks both cards, empties
\* flippedCards and adds 1 to matchedPairs; a mismatch schedules the unflip,
\* which turns both cards face-down and empties flippedCards), the session
\* staying Paused; and while Paused no click flips a card.
PauseKeepsComparison ==
  /\ LET P == pauseGame(Cur) IN
       /\ P.timers = timers
       /\ P.cards = cards /\ P.flippedCards = flippedCards
       /\ P.matchedPairs = matchedPairs /\ P.isProcessing = isProcessing
       /\ (isGameStarted /\ ~isGameComplete) => P.isGamePaused
  /\ isGamePaused =>
       /\ \A i \in Pending("comparison") :
            (timers[i].gen = gen /\ Fireable(i)) =>
              LET R == Firing(Cur, i)
                  c1 == timers[i].c1
                  c2 == timers[i].c2
              IN  /\ R.isGamePaused
                  /\ IF c1.pairId = c2.pairId
                     THEN /\ MatchedIn(R, c1.id) /\ MatchedIn(R, c2.id)
                          /\ R.cards # cards
                          /\ R.flippedCards = <<>>
                          /\ R.matchedPairs = matchedPairs + 1
                     ELSE \E k \in 1..Len(R.timers) :
                            /\ R.timers[k].kind = "nomatch"
                            /\ R.timers[k].c1 = c1 /\ R.timers[k].c2 = c2
       /\ \A i \in Pending("nomatch") :
            (timers[i].gen = gen /\ Fireable(i)) =>
              LET R == Firing(Cur, i) IN
              /\ R.isGamePaused
              /\ ~FaceUpIn(R, timers[i].c1.id) /\ ~FaceUpIn(R, timers[i].c2.id)
              /\ R.flippedCards = <<>>
       /\ \A cardId \in CardIds : ClickIsNoOp(cardId)

\* a session paused between the second click and the comparison: two cards
\* of one pair are face-up and their comparison is pending and due
PausedBeforeComparison ==
  /\ isGamePaused
  /\ isProcessing
  /\ Len(flippedCards) = 2
  /\ \E i \in Pending("comparison") :
       /\ timers[i].gen = gen /\ Fireable(i)
       /\ timers[i].c1.pairId = timers[i].c2.pairId
       /\ ~MatchedIn(Cur, timers[i].c1.id)

\* C28: in every reachable state the cards held in flippedCards are exactly
\* the cards of the board that are face-up and not matched.
FlippedCardsAreFaceUp ==
  {flippedCards[i].id : i \in 1..Len(flippedCards)}
    = {cards[k].id : k \in FaceUpUnmatched}

\* the callbacks of a mismatch of the current session that are pending: the
\* comparison of two cards of different pairs, or the unflip that follows it
MismatchPending ==
  {i \in Pending("comparison") :
     timers[i].gen = gen /\ timers[i].c1.pairId # timers[i].c2.pairId}
  \cup {i \in Pending("nomatch") : timers[i].gen = gen}

\* C29: while the comparison or the unflip of a mismatch is pending, no
\* click flips a card; when the unflip runs, both cards are face-down,
\* flippedCards is empty and the processing flag is cleared; and from the
\* second click, where moves grew by 1, to the unflip no step of the session
\* changes matchedPairs, score or moves.
MismatchResolution ==
  /\ [](MismatchPending # {} => \A cardId \in CardIds : ClickIsNoOp(cardId))
  /\ [](\A i \in Pending("nomatch") :
          timers[i].gen = gen =>
            LET R == Fired(Cur, i) IN
            /\ ~FaceUpIn(R, timers[i].c1.id) /\ ~FaceUpIn(R, timers[i].c2.id)
            /\ R.flippedCards = <<>>
            /\ ~R.isProcessing
            /\ R.matchedPairs = matchedPairs /\ R.score = score /\ R.moves = moves)
  /\ [][(MismatchPending # {} /\ gen' = gen) =>
          (matchedPairs' = matchedPairs /\ score' = score /\ moves' = moves)]_vars
  /\ [][(Len(flippedCards) = 1 /\ Len(flippedCards') = 2) => moves' = moves + 1]_vars

\* C30: in every reachable state, startGame called on a NotStarted session
\* makes it started; called on a started session (InProgress, Paused or
\* Complete) it leaves the started, paused and complete flags and the state
\* of the Timer as they are.
StartGameOnlyFromNotStarted ==
  LET S == startGame(Cur) IN
  IF ~isGameStarted
  THEN S.isGameStarted /\ ~S.isGamePaused /\ ~S.isGameComplete
  ELSE /\ S.isGameStarted = isGameStarted
       /\ S.isGamePaused = isGamePaused
       /\ S.isGameComplete = isGameComplete
       /\ S.timerState = timerState

\* C31: in every reachable state the lifecycle flags describe exactly one of
\* NotStarted, InProgress, Paused and Complete: paused implies started and
\* not complete, and complete implies started.
LifecycleFlagsExclusive ==
  /\ isGamePaused => (isGameStarted /\ ~isGameComplete)
  /\ isGameComplete => isGameStarted

\* C32: in every reachable state 0 <= matchedPairs <= pairCount and twice
\* matchedPairs is the number of cards of the deck with isMatched = true.
MatchedPairsCountsMatchedCards ==
  /\ 0 <= matchedPairs
  /\ matchedPairs <= pairCount(difficulty)
  /\ 2 * matchedPairs = Cardinality({i \in 1..Len(cards) : cards[i].isMatched})

\* C33: in every step that keeps the deck (no resetGame, no change of
\* difficulty or theme), a card that is matched stays matched and face-up.
MatchedIsTerminal ==
  [][gen' = gen =>
       \A i \in 1..Len(cards) :
         cards[i].isMatched =>
           /\ cards'[i].id = cards[i].id
           /\ cards'[i].isMatched
           /\ cards'[i].isFlipped]_vars

\* in a first session one pair has been matched and one mismatch has been
\* unflipped: the matched pair is the only pair face-up
MatchedPairSurvivedUnflip ==
  /\ gen = 1
  /\ matchedPairs = 1 /\ moves = 2
  /\ ~isProcessing /\ timers = <<>> /\ flippedCards = <<>>
  /\ Cardinality({i \in 1..Len(cards) : cards[i].isMatched /\ cards[i].isFlipped}) = 2
  /\ FaceUpUnmatched = {}

\* C34: in every reachable state, a session that is Complete, or whose
\* completion has fired, is started and every card of its deck is matched.
CompleteOnlyWhenAllMatched ==
  (isGameComplete \/ gameCompleteTriggeredRef \/ completionRuns > 0) =>
    /\ isGameStarted
    /\ Len(cards) > 0
    /\ \A i \in 1..Len(cards) : cards[i].isMatched

\* the completion has fired, once, in the session that followed a reset or a
\* change of difficulty
SecondSessionComplete ==
  /\ gen = 2
  /\ isGameComplete
  /\ completionRuns = 1

\* C35: every application of calculateScore(moves, elapsed, difficulty,
\* matchedPairs) returns the reference value: matchedPairs x 100, plus, only
\* when matchedPairs = pairCount, 1000 + (500 if moves = 2 x pairCount) +
\* 10 x max(0, limit - elapsed), the limit being the time limit of the
\* difficulty or 120 when it has none, - 5 x max(0, moves - 2 x pairCount);
\* the whole floored at 0, so never negative.
ScoreMatchesReference ==
  call.fn = "calculateScore" =>
    LET m == call.args[1]
        e == call.args[2]
        d == call.args[3]
        p == call.args[4]
        pairs == CASE d = "EASY" -> 4 [] d = "MEDIUM" -> 6 [] d = "HARD" -> 10
        limit == CASE d = "EASY" -> 120 [] d = "MEDIUM" -> 120 [] d = "HARD" -> 180
        bonus == 1000 + (IF m = 2 * pairs THEN 500 ELSE 0)
                   + 10 * Max(0, limit - e) - 5 * Max(0, m - 2 * pairs)
        raw == p * 100 + (IF p = pairs THEN bonus ELSE 0)
    IN  /\ call.out = Max(0, raw)
        /\ call.out >= 0

\* a completed game so long that the move penalty outweighs the rest: the
\* score is floored at 0
LongGameFlooredAtZero ==
  /\ call.fn = "calculateScore"
  /\ call.args[4] = pairCount(call.args[3])
  /\ call.args[1] = 700
  /\ call.args[2] = 0
  /\ call.out = 0

\* C36: whenever the processing flag is set it is eventually cleared, pending
\* callbacks running when due.
ProcessingEventuallyCleared == isProcessing ~> ~isProcessing

\* the processing flag set by the start of the auto-resolution in a paused
\* session of a second deck
ProcessingWhilePaused ==
  /\ isProcessing
  /\ isGamePaused
  /\ gen = 2
  /\ Pending("autoResolve") # {}

\* C37: no completion notification is delivered for a session that has been
\* superseded, and one delivered for the current session finds it Complete.
NoStaleNotification ==
  /\ notifiedStale = 0
  /\ notifiedCur > 0 => isGameComplete

\* C38: for an application of calculateScore at completion (matchedPairs =
\* pairCount) with at least pairCount - 1 moves, every larger move count
\* gives, for the same difficulty and elapsed time, a score that is not
\* higher.
FinalScoreNonIncreasingInMoves ==
  ( /\ call.fn = "calculateScore"
    /\ call.args[4] = pairCount(call.args[3])
    /\ call.args[1] >= pairCount(call.args[3]) - 1 )
  => \A m \in ScoreMoves :
       m > call.args[1] =>
         calculateScore(m, call.args[2], call.args[3], call.args[4]) <= call.out

\* C39: export then import is a round trip: importing the blob exported at
\* store contents S, after any changes to the five records, returns true
\* and leaves high scores, player stats, settings, player name and theme
\* preference as they were in S.
ExportImportRoundTrip ==
  call.fn = "restore" =>
    /\ call.out = TRUE
    /\ <<highScores, playerStats, gameSettings, playerName, themePreference>> = call.args

\* an import that returned true and left the player name different from
\* the exported one
RestoredNameDiffers ==
  /\ call.fn = "restore"
  /\ call.out = TRUE
  /\ playerName # call.args[4]

\* an import that returned true and left the statistics different from the
\* exported ones
RestoredStatsDiffer ==
  /\ call.fn = "restore"
  /\ call.out = TRUE
  /\ playerStats # call.args[2]

\* the records other than an empty name and never-won statistics do come
\* back
RoundTripOfStoredValues ==
  call.fn = "restore" =>
    /\ call.out = TRUE
    /\ highScores = call.args[1]
    /\ gameSettings = call.args[3]
    /\ themePreference = call.args[5]
    /\ call.args[4] # "" => playerName = call.args[4]
    /\ (call.args[2].bestTime # Infinity /\ call.args[2].bestMoves # Infinity)
         => playerStats = call.args[2]

====
